---- MODULE Spec2Model ----
(***************************************************************************)
(* StudyPro media capture pipeline (src/components/MediaCapture.tsx).      *)
(*                                                                         *)
(* Four specifications are given:                                         *)
(*   Spec      the MediaCapture component: stream acquisition, recorder,   *)
(*             capture / crop / audio review flow and the upload pipeline, *)
(*             together with the browser and backend completions that      *)
(*             drive its asynchronous continuations;                       *)
(*   SpecCrop  the CropEditor component: the crop rectangle under pointer  *)
(*             gestures on its five handles;                               *)
(*   SpecPure  the pure functions (clamp, the resize arithmetic, the size  *)
(*             of the saved crop, the naming of a picked file), each       *)
(*             applied to inputs drawn from a bounded set;                 *)
(*   SpecCourse the day-log loading of the CourseDetail component          *)
(*             (src/unnamed/part_001): day switches, log queries and the   *)
(*             arrival of their responses in any order.                    *)
(* The attachment list of the parent (src/components/StudyDay.tsx), which  *)
(* the onUpload callback updates, is part of the state of Spec.            *)
(* A handler of the source is one action; every await splits a handler    *)
(* into the part before it and one action per continuation.                *)
(*                                                                         *)
(* Only objects that can still act are kept in the state: a media stream   *)
(* whose tracks are stopped (or whose request was rejected), that has no   *)
(* recorder event outstanding and that no ref points to is dropped, and an *)
(* uploadMedia invocation is dropped when it returns.  What a step did     *)
(* that is visible outside the component (notification, onUpload, setters  *)
(* invoked, the finished upload) is recorded in `last` for that step.      *)
(***************************************************************************)
EXTENDS Integers, Sequences, FiniteSets, TLC

VARIABLES
  \* ---- MediaCapture: React state (useState, lines 182-187)
  isCapturing,      \* "null" | "photo" | "audio"
  capturedImage,    \* object URL id of the captured still, NoImage when null
  recording,        \* BOOLEAN
  recordedAudio,    \* <<>> when null, <<blob>> when a blob awaits review
  uploading,        \* BOOLEAN
  showFlash,        \* BOOLEAN
  \* ---- MediaCapture: refs (useRef, lines 189-195)
  streamRef,        \* slot of the held stream, NoStream when null
  mediaRecorderRef, \* slot of the stream whose recorder is installed, NoStream when null
  chunksRef,        \* sequence of chunk sizes
  isMounted,        \* BOOLEAN
  \* ---- browser / backend
  supported,        \* the mime types MediaRecorder.isTypeSupported accepts
  streams,          \* slot -> [type, st, rec]: the getUserMedia requests and their streams
  captureBlobs,     \* number of capturePhoto canvas.toBlob callbacks outstanding
  flashTimers,      \* number of 150 ms flash timers outstanding
  cropBlobs,        \* CropEditor canvas.toBlob callbacks outstanding: the URL each closure holds
  urls,             \* the object URLs created and not revoked
  uploads,          \* the uploadMedia invocations in flight, oldest first
  \* ---- observation
  clicks,           \* number of user gestures so far
  last,             \* what the last step was and did: [op, done, notes, late]
  \* ---- CropEditor (lines 11-21)
  crop,             \* [x, y, width, height] in percent
  interactionRef,   \* <<>> when null, <<[startX, startY, startCrop, mode]>> during a gesture
  \* ---- StudyDay (src/components/StudyDay.tsx, line 19)
  attachments,      \* the visible attachment list: the rows handed to onUpload, first shown first
  \* ---- evaluation of a pure function
  call,             \* <<>> when none, <<[fn, args, result]>> for the function applied to args
  \* ---- CourseDetail (src/unnamed/part_001, lines 12-23)
  subjects,         \* number of subjects of the course that were loaded
  loading,          \* BOOLEAN
  currentDay,       \* the selected day
  activeRequestRef, \* the day of the active day-log request
  dayLogs,          \* the day_number of the logs held: {} for an empty map, {d} for logs of day d
  fetchingLogs,     \* BOOLEAN
  logRequests,      \* day -> number of fetchAllLogsForDay queries in flight for that day
  refreshers        \* the days whose StudyDay was mounted: each holds refreshLogs for its day

cropVars == <<crop, interactionRef>>
courseVars == <<subjects, loading, currentDay, activeRequestRef, dayLogs, fetchingLogs,
                logRequests, refreshers>>
vars == <<isCapturing, capturedImage, recording, recordedAudio, uploading, showFlash,
          streamRef, mediaRecorderRef, chunksRef, isMounted, supported, streams,
          captureBlobs, flashTimers, cropBlobs, urls, uploads, clicks, last,
          crop, interactionRef, attachments, call,
          subjects, loading, currentDay, activeRequestRef, dayLogs, fetchingLogs,
          logRequests, refreshers>>

(***************************************************************************)
(* Bounds of the model.                                                    *)
(***************************************************************************)
\* user gestures (button presses, file picks) over the life of the component
MaxClicks == 4

\* null of streamRef / mediaRecorderRef
NoStream == 0
\* null of capturedImage
NoImage == 0

\* every stream stems from a gesture
Slots == 1..MaxClicks
\* ids for URL.createObjectURL: every URL stems from a gesture
UrlIds == 1..MaxClicks

(***************************************************************************)
(* Pure helpers of MediaCapture.                                           *)
(***************************************************************************)
\* uploadMedia: const sizeLimit = 50 * 1024 * 1024
sizeLimit == 50 * 1024 * 1024

\* the size check with >= in place of >
TooLargeGe(fileSizeInBytes) == fileSizeInBytes >= sizeLimit

\* uploadMedia: if (fileSizeInBytes > sizeLimit)
TooLarge(fileSizeInBytes) == fileSizeInBytes > sizeLimit

\* the authentication check left out
AuthNeverMissing(user) == FALSE

\* uploadMedia: if (!user) -- user is <<>> when getUser returned no user
AuthMissing(user) == user = <<>>

\* the storage error ignored
UploadNeverThrows(uploadError) == FALSE

\* uploadMedia: if (uploadError) throw uploadError
UploadThrows(uploadError) == uploadError

\* uploadMedia: if (error) throw error
InsertThrows(error) == error

\* the completion callback without the mount check
CallsOnUploadUnmounted(mounted, data) == data # <<>>

\* uploadMedia: if (isMounted.current && data) onUpload(data)
CallsOnUpload(mounted, data) == mounted /\ data # <<>>

\* getSupportedMimeType: the ordered preference lists
videoTypes == <<"video/webm;codecs=vp8", "video/webm", "video/mp4", "video/quicktime">>
audioTypes == <<"audio/webm", "audio/mp4", "audio/ogg", "audio/aac">>

\* a find that returns the last element of possibleTypes that is supported
RECURSIVE FindSupportedLast(_, _)
FindSupportedLast(possibleTypes, sup) ==
  IF possibleTypes = <<>> THEN ""
  ELSE IF FindSupportedLast(Tail(possibleTypes), sup) # ""
         THEN FindSupportedLast(Tail(possibleTypes), sup)
  ELSE IF Head(possibleTypes) \in sup THEN Head(possibleTypes)
  ELSE ""

\* Array.prototype.find: the first element of possibleTypes that is supported, '' if none
RECURSIVE FindSupported(_, _)
FindSupported(possibleTypes, sup) ==
  IF possibleTypes = <<>> THEN ""
  ELSE IF Head(possibleTypes) \in sup THEN Head(possibleTypes)
  ELSE FindSupported(Tail(possibleTypes), sup)

getSupportedMimeType(type) ==
  FindSupported(IF type = "video" THEN videoTypes ELSE audioTypes, supported)

\* new Blob(chunks).size: the sum of the chunk sizes
RECURSIVE BlobSize(_)
BlobSize(chunks) == IF chunks = <<>> THEN 0 ELSE Head(chunks) + BlobSize(Tail(chunks))

\* canDismiss that forgets the review state
canDismissNoReview == isCapturing # "audio" \/ ~recording

\* const isAudio = isCapturing === 'audio';
\* const canDismiss = !isAudio || (!recording && !recordedAudio);
canDismiss == isCapturing # "audio" \/ (~recording /\ recordedAudio = <<>>)

\* A React state setter: the update reaches the view only while the component is mounted.
Upd(new, old) == IF isMounted THEN new ELSE old

\* The setters in S are invoked by this step: they are late when isMounted.current is false.
Late(S) == IF isMounted THEN {} ELSE S

\* What a step did: its name, the upload it finished, the notifications it emitted and
\* the setters it invoked after teardown.
Did(op, done, notes, late) == [op |-> op, done |-> done, notes |-> notes, late |-> late]
Step(op) == Did(op, <<>>, <<>>, {})

\* A user gesture: a button press or a file pick.
Click == clicks < MaxClicks /\ clicks' = clicks + 1

(***************************************************************************)
(* Media streams.                                                          *)
(***************************************************************************)
\* by: the caller of the startStream that requested the stream
FreeSlot == [type |-> "none", st |-> "free", rec |-> "none", by |-> "none"]

\* stopStream that clears the handle without stopping the tracks
StopTracksNone(ss, ref) == ss

\* stopStream: streamRef.current.getTracks().forEach(t => t.stop()).
\* A recorder that is recording on the stream flushes its data and stops.
StopTracks(ss, ref) ==
  IF ref = NoStream THEN ss
  ELSE [ss EXCEPT ![ref] = [type |-> ss[ref].type,
                            st   |-> "stopped",
                            rec  |-> IF ss[ref].rec = "recording" THEN "data" ELSE ss[ref].rec,
                            by   |-> ss[ref].by]]

\* A stream that is finished, has no recorder event outstanding and is referenced by
\* neither ref can do nothing more: its slot is free again.
Collect(ss, sref, mref) ==
  [i \in Slots |->
     IF /\ ss[i].st \in {"stopped", "rejected"}
        /\ ss[i].rec \in {"none", "inactive"}
        /\ i # sref
        /\ i # mref
       THEN FreeSlot ELSE ss[i]]

FreeSlots(ss) == {i \in Slots : ss[i].st = "free"}
Lowest(S) == CHOOSE i \in S : \A j \in S : i <= j

\* The streams that have a live (un-stopped) track.
LiveStreams == {i \in Slots : streams[i].st = "live"}

(***************************************************************************)
(* What is rendered (lines 461-621).                                       *)
(***************************************************************************)
\* if (capturedImage) return <CropEditor .../>
CropEditorShown == isMounted /\ capturedImage # NoImage
\* {isCapturing && ( ...modal... )}
ModalShown == isMounted /\ capturedImage = NoImage /\ isCapturing # "null"
\* the Upload / Camera / Audio buttons: rendered when not uploading, and not
\* covered by the full-screen modal backdrop
ButtonsShown == isMounted /\ capturedImage = NoImage /\ ~uploading /\ isCapturing = "null"
PhotoViewShown == ModalShown /\ isCapturing # "audio"
AudioViewShown == ModalShown /\ isCapturing = "audio"

(***************************************************************************)
(* Inputs of the environment.                                              *)
(***************************************************************************)
\* sizes of picked files and of rasterized stills
BlobSizes == {sizeLimit, sizeLimit + 1}
\* sizes of the data chunk a recorder emits
ChunkSizes == {0, 1024, sizeLimit + 1}
\* what MediaRecorder.isTypeSupported may accept
SupportedChoices == {{}, {"audio/mp4", "audio/ogg"}}
\* file.type of a picked file, a string as the sequence of its characters:
\* "image/x", "video/x", "audio/x", "text/x", "image" and ""
FileTypes == {<<"i", "m", "a", "g", "e", "/", "x">>,
              <<"v", "i", "d", "e", "o", "/", "x">>,
              <<"a", "u", "d", "i", "o", "/", "x">>,
              <<"t", "e", "x", "t", "/", "x">>,
              <<"i", "m", "a", "g", "e">>,
              <<>>}

(***************************************************************************)
(* stopStream (lines 440-450)                                              *)
(***************************************************************************)
stopStream ==
  /\ streams' = Collect(StopTracks(streams, streamRef), NoStream, mediaRecorderRef)
  /\ streamRef' = NoStream
  /\ isCapturing' = Upd("null", isCapturing)
  /\ recording' = Upd(FALSE, recording)
  /\ recordedAudio' = Upd(<<>>, recordedAudio)

(***************************************************************************)
(* startStream, up to the await (lines 226-237)                            *)
(***************************************************************************)
startStream(type, by) ==
  LET stopped == Collect(StopTracks(streams, streamRef), NoStream, mediaRecorderRef)
  IN  /\ FreeSlots(stopped) # {}
      /\ streams' = [stopped EXCEPT ![Lowest(FreeSlots(stopped))] =
                       [type |-> type, st |-> "pending", rec |-> "none", by |-> by]]
      /\ streamRef' = NoStream
      /\ IF streamRef # NoStream
           THEN /\ isCapturing' = Upd("null", isCapturing)
                /\ recording' = Upd(FALSE, recording)
                /\ recordedAudio' = Upd(<<>>, recordedAudio)
           ELSE UNCHANGED <<isCapturing, recording, recordedAudio>>

\* onClick={() => startStream('photo')} / onClick={() => startStream('audio')}
StartClick(type) ==
  /\ ButtonsShown
  /\ startStream(type, "click")
  /\ last' = Step("startStream")
  /\ UNCHANGED <<capturedImage, uploading, showFlash, mediaRecorderRef, chunksRef, isMounted,
                 supported, captureBlobs, flashTimers, cropBlobs, urls, uploads>>
  /\ Click
  /\ UNCHANGED <<crop, interactionRef, attachments, call, courseVars>>

\* startStream after the await: getUserMedia resolved with a stream (lines 239-248),
\* setupRecorder included (lines 256-282)
GetUserMediaResolve(i) ==
  /\ streams[i].st = "pending"
  /\ IF ~isMounted
       THEN /\ streams' = Collect([streams EXCEPT ![i].st = "stopped"],
                                  streamRef, mediaRecorderRef)
            /\ last' = Step("getUserMediaResolve")
            /\ UNCHANGED <<streamRef, isCapturing, recordedAudio, mediaRecorderRef>>
       ELSE /\ streamRef' = i
            /\ isCapturing' = streams[i].type
            /\ recordedAudio' = <<>>
            /\ IF streams[i].type \in {"audio", "video"}
                 THEN IF getSupportedMimeType(streams[i].type) = ""
                        THEN /\ streams' = [streams EXCEPT ![i].st = "live"]
                             /\ last' = Did("getUserMediaResolve", <<>>,
                                            <<"Your browser does not support recording media.">>,
                                            {})
                             /\ UNCHANGED mediaRecorderRef
                        ELSE /\ streams' = Collect([streams EXCEPT ![i].st = "live",
                                                                   ![i].rec = "inactive"],
                                                   i, i)
                             /\ last' = Step("getUserMediaResolve")
                             /\ mediaRecorderRef' = i
                 ELSE /\ streams' = [streams EXCEPT ![i].st = "live"]
                      /\ last' = Step("getUserMediaResolve")
                      /\ UNCHANGED mediaRecorderRef
  /\ UNCHANGED <<capturedImage, recording, uploading, showFlash, chunksRef, isMounted,
                 supported, captureBlobs, flashTimers, cropBlobs, urls, uploads>>
  /\ UNCHANGED <<clicks, crop, interactionRef, attachments, call, courseVars>>

\* startStream after the await: getUserMedia rejected (lines 249-253)
GetUserMediaReject(i) ==
  /\ streams[i].st = "pending"
  /\ streams' = Collect([streams EXCEPT ![i].st = "rejected"], streamRef, mediaRecorderRef)
  /\ isCapturing' = Upd("null", isCapturing)
  /\ last' = Did("getUserMediaReject", <<>>,
                 <<"Media access denied. Please check your browser permissions.">>,
                 Late({"setIsCapturing"}))
  /\ UNCHANGED <<capturedImage, recording, recordedAudio, uploading, showFlash, streamRef,
                 mediaRecorderRef, chunksRef, isMounted, supported, captureBlobs,
                 flashTimers, cropBlobs, urls, uploads>>
  /\ UNCHANGED <<clicks, crop, interactionRef, attachments, call, courseVars>>

\* backdrop onClick={canDismiss ? stopStream : undefined}; close button {canDismiss && ...}
Dismiss ==
  /\ ModalShown
  /\ canDismiss
  /\ stopStream
  /\ last' = Step("dismiss")
  /\ UNCHANGED <<capturedImage, uploading, showFlash, mediaRecorderRef, chunksRef, isMounted,
                 supported, captureBlobs, flashTimers, cropBlobs, urls, uploads>>
  /\ Click
  /\ UNCHANGED <<crop, interactionRef, attachments, call, courseVars>>

\* the cleanup of the mount effect (lines 197-203) and of the capturedImage effect (206-210)
Unmount ==
  /\ isMounted
  /\ isMounted' = FALSE
  /\ streams' = Collect(StopTracks(streams, streamRef), NoStream, mediaRecorderRef)
  /\ streamRef' = NoStream
  /\ urls' = urls \ {capturedImage}
  /\ last' = Step("unmount")
  /\ UNCHANGED <<isCapturing, capturedImage, recording, recordedAudio, uploading, showFlash,
                 mediaRecorderRef, chunksRef, supported, captureBlobs, flashTimers,
                 cropBlobs, uploads>>
  /\ UNCHANGED <<clicks, crop, interactionRef, attachments, call, courseVars>>

(***************************************************************************)
(* capturePhoto (lines 284-312)                                            *)
(***************************************************************************)
capturePhoto ==
  /\ PhotoViewShown
  /\ showFlash' = TRUE
  /\ flashTimers' = flashTimers + 1
  /\ captureBlobs' = captureBlobs + 1
  /\ last' = Step("capturePhoto")
  /\ UNCHANGED <<isCapturing, capturedImage, recording, recordedAudio, uploading, streamRef,
                 mediaRecorderRef, chunksRef, isMounted, supported, streams, cropBlobs,
                 urls, uploads>>
  /\ Click
  /\ UNCHANGED <<crop, interactionRef, attachments, call, courseVars>>

\* setTimeout(() => { if (isMounted.current) setShowFlash(false); }, 150)
FlashTimeout ==
  /\ flashTimers > 0
  /\ flashTimers' = flashTimers - 1
  /\ showFlash' = Upd(FALSE, showFlash)
  /\ last' = Step("flashTimeout")
  /\ UNCHANGED <<isCapturing, capturedImage, recording, recordedAudio, uploading, streamRef,
                 mediaRecorderRef, chunksRef, isMounted, supported, streams, captureBlobs,
                 cropBlobs, urls, uploads>>
  /\ UNCHANGED <<clicks, crop, interactionRef, attachments, call, courseVars>>

\* URL.createObjectURL(blob): an id no live URL, no closure and no upload in flight holds
FreshUrls ==
  UrlIds \ (urls \cup {capturedImage} \cup {cropBlobs[k] : k \in 1..Len(cropBlobs)}
                 \cup {uploads[k].still : k \in 1..Len(uploads)})

\* canvas.toBlob((blob) => { if (blob && isMounted.current) {...; stopStream();} })
\* with the capturedImage effect cleanup that revokes the URL it replaces
CaptureBlobReady(hasBlob) ==
  /\ captureBlobs > 0
  /\ captureBlobs' = captureBlobs - 1
  /\ IF hasBlob /\ isMounted
       THEN /\ FreshUrls # {}
            /\ capturedImage' = Lowest(FreshUrls)
            /\ urls' = (urls \ {capturedImage}) \cup {Lowest(FreshUrls)}
            /\ stopStream
       ELSE UNCHANGED <<urls, capturedImage, streams, streamRef, isCapturing,
                        recording, recordedAudio>>
  /\ last' = Step("captureBlobReady")
  /\ UNCHANGED <<uploading, showFlash, mediaRecorderRef, chunksRef, isMounted, supported,
                 flashTimers, cropBlobs, uploads>>
  /\ UNCHANGED <<clicks, crop, interactionRef, attachments, call, courseVars>>

(***************************************************************************)
(* uploadMedia (lines 359-438).                                            *)
(* An invocation in flight: what it was called with, the await it is at,   *)
(* the services it has called in order, what they answered, and how often  *)
(* it has invoked onUpload.                                                *)
(***************************************************************************)
\* const uniqueId = Math.random().toString(36).substring(2, 10): an id that no upload
\* in flight and no attachment shown carries
NoId == 0
UniqueIds == 1..MaxClicks
FreshIds ==
  UniqueIds \ ({uploads[k].uniqueId : k \in 1..Len(uploads)}
                \cup {attachments[k] : k \in 1..Len(attachments)})

\* onUpload that appends the row
onUploadAppend(att) == attachments' = Append(attachments, att)

\* StudyDay: onUpload={(att) => { setAttachments(prev => [att, ...prev]); notify(...) }}
onUpload(att) == attachments' = <<att>> \o attachments

NewUpload(size, type, file, still, tooLarge) ==
  [size |-> size, type |-> type, file |-> file, still |-> still,
   pc |-> IF tooLarge THEN "done" ELSE "getUser",
   calls |-> IF tooLarge THEN <<>> ELSE <<"getUser">>,
   user |-> "?", stored |-> "?", inserted |-> "?",
   uniqueId |-> NoId,
   onUpload |-> 0]

Remove(seq, u) == SubSeq(seq, 1, u - 1) \o SubSeq(seq, u + 1, Len(seq))

\* uploadMedia up to the first await (lines 359-375).
\* op: the handler that calls it; still: the captured still the blob was cropped from,
\* NoImage for any other blob; capBefore: isCapturing as the caller's own setters leave
\* it; lateBefore: the setters the caller invoked without a mount check.
uploadMedia(op, size, type, file, still, capBefore, lateBefore) ==
  IF TooLarge(size)
    THEN /\ uploads' = uploads
         /\ isCapturing' = Upd("null", capBefore)
         /\ uploading' = Upd(FALSE, uploading)
         /\ recording' = Upd(FALSE, recording)
         /\ last' = Did(op, <<NewUpload(size, type, file, still, TRUE)>>,
                        <<"File too large. Maximum size limit is 50MB.">>,
                        Late(lateBefore))
    ELSE /\ uploads' = Append(uploads, NewUpload(size, type, file, still, FALSE))
         /\ isCapturing' = capBefore
         /\ uploading' = Upd(TRUE, uploading)
         /\ recording' = recording
         /\ last' = Did(op, <<>>, <<>>, Late(lateBefore \cup {"setUploading"}))

\* finally { if (isMounted.current) { setUploading(false); setIsCapturing(null);
\*                                    setRecordedAudio(null); } }
Finally ==
  /\ uploading' = Upd(FALSE, uploading)
  /\ isCapturing' = Upd("null", isCapturing)
  /\ recordedAudio' = Upd(<<>>, recordedAudio)

\* const { data: { user } } = await supabase.auth.getUser() returned (lines 375-411)
UploadGetUser(u, user) ==
  /\ u \in 1..Len(uploads)
  /\ uploads[u].pc = "getUser"
  /\ LET answered == [uploads[u] EXCEPT !.user = IF user = <<>> THEN "none" ELSE "some"]
     IN IF AuthMissing(user)
          THEN /\ uploads' = Remove(uploads, u)
               /\ uploading' = Upd(FALSE, uploading)
               /\ last' = Did("uploadGetUser", <<[answered EXCEPT !.pc = "done"]>>,
                              <<"Authentication required to upload.">>,
                              Late({"setUploading"}))
          ELSE /\ FreshIds # {}
               /\ uploads' = [uploads EXCEPT ![u] = [answered EXCEPT !.pc = "storage",
                                                       !.uniqueId = Lowest(FreshIds),
                                                       !.calls = Append(@, "upload")]]
               /\ last' = Step("uploadGetUser")
               /\ UNCHANGED uploading
  /\ UNCHANGED <<isCapturing, capturedImage, recording, recordedAudio, showFlash, streamRef,
                 mediaRecorderRef, chunksRef, isMounted, supported, streams, captureBlobs,
                 flashTimers, cropBlobs, urls>>
  /\ UNCHANGED <<clicks, crop, interactionRef, attachments, call, courseVars>>

\* await supabase.storage.from('student-assets').upload(filePath, blob) returned (411-421)
UploadStorage(u, uploadError) ==
  /\ u \in 1..Len(uploads)
  /\ uploads[u].pc = "storage"
  /\ LET answered == [uploads[u] EXCEPT !.stored = IF uploadError THEN "no" ELSE "yes"]
     IN IF UploadThrows(uploadError)
          THEN /\ uploads' = Remove(uploads, u)
               /\ Finally
               /\ last' = Did("uploadStorage", <<[answered EXCEPT !.pc = "done"]>>,
                              <<"Storage error">>, {})
          ELSE /\ uploads' = [uploads EXCEPT ![u] = [answered EXCEPT !.pc = "insert",
                                            !.calls = @ \o <<"getPublicUrl", "insert">>]]
               /\ last' = Step("uploadStorage")
               /\ UNCHANGED <<uploading, isCapturing, recordedAudio>>
  /\ UNCHANGED <<capturedImage, recording, showFlash, streamRef, mediaRecorderRef, chunksRef,
                 isMounted, supported, streams, captureBlobs, flashTimers, cropBlobs, urls>>
  /\ UNCHANGED <<clicks, crop, interactionRef, attachments, call, courseVars>>

\* await supabase.from('media_attachments').insert(...).select().single() returned (416-437)
UploadInsert(u, error) ==
  /\ u \in 1..Len(uploads)
  /\ uploads[u].pc = "insert"
  /\ LET answered == [uploads[u] EXCEPT !.inserted = IF error THEN "no" ELSE "yes",
                                        !.pc = "done"]
         data == IF error THEN <<>> ELSE <<uploads[u].uniqueId>>
     IN IF InsertThrows(error)
          THEN /\ last' = Did("uploadInsert", <<answered>>, <<"Storage error">>, {})
               /\ UNCHANGED attachments
          ELSE IF CallsOnUpload(isMounted, data)
                 THEN /\ onUpload(data[1])
                      /\ last' = Did("uploadInsert", <<[answered EXCEPT !.onUpload = @ + 1]>>,
                                     <<"Asset synchronized!">>, {})
                 ELSE /\ UNCHANGED attachments
                      /\ last' = Did("uploadInsert", <<answered>>, <<>>, {})
  /\ uploads' = Remove(uploads, u)
  /\ Finally
  /\ UNCHANGED <<capturedImage, recording, showFlash, streamRef, mediaRecorderRef, chunksRef,
                 isMounted, supported, streams, captureBlobs, flashTimers, cropBlobs, urls>>
  /\ UNCHANGED <<clicks, crop, interactionRef, call, courseVars>>

\* String.prototype.startsWith
startsWith(str, searchString) ==
  /\ Len(searchString) <= Len(str)
  /\ SubSeq(str, 1, Len(searchString)) = searchString

\* the inference without its video branch
InferTypeNoVideo(fileType) ==
  IF startsWith(fileType, <<"i", "m", "a", "g", "e", "/">>) THEN "image"
  ELSE IF startsWith(fileType, <<"a", "u", "d", "i", "o", "/">>) THEN "audio"
  ELSE "document"

\* let type = 'document'; if (file.type.startsWith('image/')) type = 'image'; else if ...
InferType(fileType) ==
  IF startsWith(fileType, <<"i", "m", "a", "g", "e", "/">>) THEN "image"
  ELSE IF startsWith(fileType, <<"v", "i", "d", "e", "o", "/">>) THEN "video"
  ELSE IF startsWith(fileType, <<"a", "u", "d", "i", "o", "/">>) THEN "audio"
  ELSE "document"

(***************************************************************************)
(* handleFileUpload (lines 346-357): the picker is opened with the Upload  *)
(* button; type is the semantic type inferred from the file's media type.  *)
(***************************************************************************)
handleFileUpload(size, fileType) ==
  /\ ButtonsShown
  /\ uploadMedia("handleFileUpload", size, InferType(fileType), TRUE, NoImage, isCapturing, {})
  /\ UNCHANGED <<capturedImage, recordedAudio, showFlash, streamRef, mediaRecorderRef,
                 chunksRef, isMounted, supported, streams, captureBlobs, flashTimers,
                 cropBlobs, urls>>
  /\ Click
  /\ UNCHANGED <<crop, interactionRef, attachments, call, courseVars>>

(***************************************************************************)
(* Crop Editor callbacks into MediaCapture.                                *)
(***************************************************************************)
\* CropEditor.handleSave (lines 89-118): Done pressed, canvas.toBlob requested.
\* The callback keeps the onSave of this render, whose capturedImage is the current one.
CropDone ==
  /\ CropEditorShown
  /\ cropBlobs' = Append(cropBlobs, capturedImage)
  /\ last' = Step("cropDone")
  /\ UNCHANGED <<isCapturing, capturedImage, recording, recordedAudio, uploading, showFlash,
                 streamRef, mediaRecorderRef, chunksRef, isMounted, supported, streams,
                 captureBlobs, flashTimers, urls, uploads>>
  /\ Click
  /\ UNCHANGED <<crop, interactionRef, attachments, call, courseVars>>

\* canvas.toBlob((blob) => { if (blob) onSave(blob); }) -> handleCropSave (lines 314-320),
\* with the capturedImage effect cleanup (lines 206-210)
handleCropSave(size) ==
  /\ cropBlobs # <<>>
  /\ cropBlobs' = Tail(cropBlobs)
  /\ urls' = (urls \ {Head(cropBlobs)}) \ (IF isMounted THEN {capturedImage} ELSE {})
  /\ capturedImage' = Upd(NoImage, capturedImage)
  /\ uploadMedia("handleCropSave", size, "image", FALSE, Head(cropBlobs), isCapturing,
                 {"setCapturedImage"})
  /\ UNCHANGED <<recordedAudio, showFlash, streamRef, mediaRecorderRef, chunksRef, isMounted,
                 supported, streams, captureBlobs, flashTimers>>
  /\ UNCHANGED <<clicks, crop, interactionRef, attachments, call, courseVars>>

\* canvas.toBlob delivered null: if (blob) is false, nothing runs
CropBlobNull ==
  /\ cropBlobs # <<>>
  /\ cropBlobs' = Tail(cropBlobs)
  /\ last' = Step("cropBlobNull")
  /\ UNCHANGED <<isCapturing, capturedImage, recording, recordedAudio, uploading, showFlash,
                 streamRef, mediaRecorderRef, chunksRef, isMounted, supported, streams,
                 captureBlobs, flashTimers, urls, uploads>>
  /\ UNCHANGED <<clicks, crop, interactionRef, attachments, call, courseVars>>

\* handleCropCancel (lines 322-327): Retake
handleCropCancel ==
  /\ CropEditorShown
  /\ urls' = urls \ {capturedImage}
  /\ capturedImage' = NoImage
  /\ startStream("photo", "retake")
  /\ last' = Step("handleCropCancel")
  /\ UNCHANGED <<uploading, showFlash, mediaRecorderRef, chunksRef, isMounted, supported,
                 captureBlobs, flashTimers, cropBlobs, uploads>>
  /\ Click
  /\ UNCHANGED <<crop, interactionRef, attachments, call, courseVars>>

(***************************************************************************)
(* Audio recording and review.                                             *)
(***************************************************************************)
\* record button, not recording (lines 597-601):
\* chunksRef.current = []; mediaRecorderRef.current?.start(); setRecording(true);
\* start() throws on a recorder that is not inactive, before setRecording runs
RecordClick ==
  /\ AudioViewShown
  /\ recordedAudio = <<>>
  /\ ~recording
  /\ chunksRef' = <<>>
  /\ IF mediaRecorderRef = NoStream
       THEN /\ recording' = TRUE
            /\ UNCHANGED streams
       ELSE IF streams[mediaRecorderRef].rec = "inactive"
              THEN /\ streams' = [streams EXCEPT ![mediaRecorderRef].rec = "recording"]
                   /\ recording' = TRUE
              ELSE UNCHANGED <<streams, recording>>
  /\ last' = Step("recordClick")
  /\ UNCHANGED <<isCapturing, capturedImage, recordedAudio, uploading, showFlash, streamRef,
                 mediaRecorderRef, isMounted, supported, captureBlobs, flashTimers, cropBlobs,
                 urls, uploads>>
  /\ Click
  /\ UNCHANGED <<crop, interactionRef, attachments, call, courseVars>>

\* record button, recording (lines 595-596): mediaRecorderRef.current?.stop()
StopClick ==
  /\ AudioViewShown
  /\ recordedAudio = <<>>
  /\ recording
  /\ IF mediaRecorderRef # NoStream /\ streams[mediaRecorderRef].rec = "recording"
       THEN streams' = [streams EXCEPT ![mediaRecorderRef].rec = "data"]
       ELSE UNCHANGED streams
  /\ last' = Step("stopClick")
  /\ UNCHANGED <<isCapturing, capturedImage, recording, recordedAudio, uploading, showFlash,
                 streamRef, mediaRecorderRef, chunksRef, isMounted, supported, captureBlobs,
                 flashTimers, cropBlobs, urls, uploads>>
  /\ Click
  /\ UNCHANGED <<crop, interactionRef, attachments, call, courseVars>>

\* The recorder stopped (stop() was called, or every track of its stream ended): in one
\* task the browser fires dataavailable with the recorded data, then stop.
\* The step records the size of the data the recorder emitted.
\* an ondataavailable that buffers empty chunks as well
ondataavailableAll(chunks, size) == Append(chunks, size)

\* recorder.ondataavailable = (e) => { if (e.data.size > 0) chunksRef.current.push(e.data); }
ondataavailable(chunks, size) == IF size > 0 THEN Append(chunks, size) ELSE chunks

\* <audio controls src={URL.createObjectURL(recordedAudio)} /> (line 566): the URL a
\* render of the review creates; nothing revokes it
AudioReviewSrc == Lowest(FreshUrls)

\* recorder.onstop (lines 266-279), type === 'audio', and the render that follows, which
\* shows the review when the audio view is open
RecorderStop(i, size) ==
  LET chunks == ondataavailable(chunksRef, size)
  IN  /\ streams[i].rec = "data"
      /\ streams' = Collect([streams EXCEPT ![i].rec = "inactive"], streamRef, mediaRecorderRef)
      /\ IF ~isMounted
           THEN /\ chunksRef' = chunks
                /\ UNCHANGED <<recordedAudio, recording, urls>>
           ELSE /\ recordedAudio' = <<[chunks |-> chunks,
                                       type |-> getSupportedMimeType(streams[i].type)]>>
                /\ recording' = FALSE
                /\ chunksRef' = <<>>
                /\ IF AudioViewShown
                     THEN /\ FreshUrls # {}
                          /\ urls' = urls \cup {AudioReviewSrc}
                     ELSE UNCHANGED urls
      /\ last' = Step("recorderStop") @@ [data |-> size]
      /\ UNCHANGED <<isCapturing, capturedImage, uploading, showFlash, streamRef,
                     mediaRecorderRef, isMounted, supported, captureBlobs, flashTimers,
                     cropBlobs, uploads>>
      /\ UNCHANGED <<clicks, crop, interactionRef, attachments, call, courseVars>>

\* handleSaveAudio (lines 331-339)
handleSaveAudio ==
  /\ AudioViewShown
  /\ recordedAudio # <<>>
  /\ uploadMedia("handleSaveAudio", BlobSize(recordedAudio[1].chunks), "audio", FALSE,
                 NoImage, "null", {})
  /\ UNCHANGED <<capturedImage, recordedAudio, showFlash, streamRef, mediaRecorderRef,
                 chunksRef, isMounted, supported, streams, captureBlobs, flashTimers,
                 cropBlobs, urls>>
  /\ Click
  /\ UNCHANGED <<crop, interactionRef, attachments, call, courseVars>>

\* handleDiscardAudio (lines 341-344)
handleDiscardAudio ==
  /\ AudioViewShown
  /\ recordedAudio # <<>>
  /\ stopStream
  /\ last' = Step("handleDiscardAudio")
  /\ UNCHANGED <<capturedImage, uploading, showFlash, mediaRecorderRef, chunksRef, isMounted,
                 supported, captureBlobs, flashTimers, cropBlobs, urls, uploads>>
  /\ Click
  /\ UNCHANGED <<crop, interactionRef, attachments, call, courseVars>>

(***************************************************************************)
(* CourseDetail: the logs of the selected day (src/unnamed/part_001).      *)
(* A state update and the render and effects it causes are one step: the   *)
(* updates made in one event handler, or in one continuation, are rendered *)
(* together before any other task runs.                                    *)
(***************************************************************************)
\* the days of the course that can be selected
MaxDay == 3
Days == 1..MaxDay
\* queries in flight for one day
MaxInFlight == 2
\* initialLog={undefined}
NoLog == 0

InitCourse ==
  /\ subjects = 0
  /\ loading = TRUE
  /\ currentDay = 1
  /\ activeRequestRef = 1
  /\ dayLogs = {}
  /\ fetchingLogs = FALSE
  /\ logRequests = [d \in Days |-> 0]
  /\ refreshers = {}

\* a completion check that lets every response through
IsActiveRequestAlways(ref, day) == TRUE

\* if (activeRequestRef.current === day) (lines 85 and 101)
IsActiveRequest(ref, day) == ref = day

\* fetchAllLogsForDay(day), up to the await (lines 79-98): subs is the subjects of the
\* render whose closure this is, ref the value activeRequestRef.current has by then
fetchAllLogsForDay(day, subs, ref) ==
  IF subs = 0
    THEN /\ IF IsActiveRequest(ref, day)
              THEN dayLogs' = {} /\ fetchingLogs' = FALSE
              ELSE fetchingLogs' = TRUE /\ UNCHANGED dayLogs
         /\ UNCHANGED logRequests
    ELSE /\ logRequests[day] < MaxInFlight
         /\ logRequests' = [logRequests EXCEPT ![day] = @ + 1]
         /\ fetchingLogs' = TRUE
         /\ UNCHANGED dayLogs

\* init (lines 25-31): fetchSubjects resolved with n subjects (lines 54-58), calculateDay
\* (lines 60-77), and the render with its day effect (lines 33-40)
FetchSubjectsDone(n, calculatedDay) ==
  /\ loading
  /\ loading' = FALSE
  /\ subjects' = n
  /\ currentDay' = calculatedDay
  /\ activeRequestRef' = calculatedDay
  /\ IF n > 0
       THEN /\ fetchAllLogsForDay(calculatedDay, n, calculatedDay)
            /\ refreshers' = refreshers \cup {calculatedDay}
       ELSE UNCHANGED <<dayLogs, fetchingLogs, logRequests, refreshers>>
  /\ last' = Step("fetchSubjects")

\* onClick={() => setCurrentDay(dayNum)} (line 214) and the search result's
\* setCurrentDay(res.day_number) (line 270), with the day effect (lines 33-40), which
\* runs when currentDay has changed
DayClick(d) ==
  /\ ~loading
  /\ currentDay' = d
  /\ IF d # currentDay /\ subjects > 0
       THEN /\ activeRequestRef' = d
            /\ fetchAllLogsForDay(d, subjects, d)
            /\ refreshers' = refreshers \cup {d}
       ELSE UNCHANGED <<activeRequestRef, dayLogs, fetchingLogs, logRequests, refreshers>>
  /\ last' = Step("dayClick")
  /\ UNCHANGED <<subjects, loading>>

\* refreshLogs={() => fetchAllLogsForDay(currentDay)} (line 246), called by a StudyDay
\* that was mounted for day d, which may not be the selected day any more
RefreshLogs(d) ==
  /\ d \in refreshers
  /\ fetchAllLogsForDay(d, subjects, activeRequestRef)
  /\ last' = Step("refreshLogs")
  /\ UNCHANGED <<subjects, loading, currentDay, activeRequestRef, refreshers>>

\* fetchAllLogsForDay(day) after the await (lines 99-112): the query for day d answered,
\* with logs of that day or with none (no row, or an error)
LogsResponse(d, hasData) ==
  /\ logRequests[d] > 0
  /\ logRequests' = [logRequests EXCEPT ![d] = @ - 1]
  /\ IF IsActiveRequest(activeRequestRef, d)
       THEN /\ dayLogs' = (IF hasData THEN {d} ELSE {})
            /\ fetchingLogs' = FALSE
       ELSE UNCHANGED <<dayLogs, fetchingLogs>>
  /\ last' = Step("logsResponse") @@ [day |-> d]
  /\ UNCHANGED <<subjects, loading, currentDay, activeRequestRef, refreshers>>

\* an initialLog passed without the day check
initialLogAny == IF dayLogs = {} THEN NoLog ELSE CHOOSE d \in dayLogs : TRUE

\* initialLog={dayLogs[subject.id]?.day_number === currentDay ? dayLogs[subject.id] :
\* undefined} (line 245): the day_number of the log a StudyDay is given
initialLog == IF currentDay \in dayLogs THEN currentDay ELSE NoLog

(***************************************************************************)
(* The MediaCapture state machine.                                         *)
(***************************************************************************)
InitCrop ==
  /\ crop = [x |-> 0, y |-> 0, width |-> 100, height |-> 100]
  /\ interactionRef = <<>>

InitCapture ==
  /\ isCapturing = "null"
  /\ capturedImage = NoImage
  /\ recording = FALSE
  /\ recordedAudio = <<>>
  /\ uploading = FALSE
  /\ showFlash = FALSE
  /\ streamRef = NoStream
  /\ mediaRecorderRef = NoStream
  /\ chunksRef = <<>>
  /\ isMounted = TRUE
  /\ streams = [i \in Slots |-> FreeSlot]
  /\ captureBlobs = 0
  /\ flashTimers = 0
  /\ cropBlobs = <<>>
  /\ urls = {}
  /\ uploads = <<>>
  /\ clicks = 0
  /\ last = Step("init")
  /\ attachments = <<>>

Init ==
  /\ InitCapture
  /\ supported \in SupportedChoices
  /\ InitCrop
  /\ call = <<>>
  /\ InitCourse

Next ==
  \/ \E type \in {"photo", "audio"} : StartClick(type)
  \/ \E i \in Slots : GetUserMediaResolve(i)
  \/ \E i \in Slots : GetUserMediaReject(i)
  \/ Dismiss
  \/ Unmount
  \/ capturePhoto
  \/ FlashTimeout
  \/ \E hasBlob \in BOOLEAN : CaptureBlobReady(hasBlob)
  \/ CropDone
  \/ \E size \in BlobSizes : handleCropSave(size)
  \/ CropBlobNull
  \/ handleCropCancel
  \/ RecordClick
  \/ StopClick
  \/ \E i \in Slots, size \in ChunkSizes : RecorderStop(i, size)
  \/ handleSaveAudio
  \/ handleDiscardAudio
  \/ \E size \in BlobSizes, fileType \in FileTypes : handleFileUpload(size, fileType)
  \/ \E u \in 1..MaxClicks, user \in {<<>>, <<"uid">>} : UploadGetUser(u, user)
  \/ \E u \in 1..MaxClicks, uploadError \in BOOLEAN : UploadStorage(u, uploadError)
  \/ \E u \in 1..MaxClicks, error \in BOOLEAN : UploadInsert(u, error)

Spec == Init /\ [][Next]_vars

(***************************************************************************)
(* CropEditor (lines 9-118).                                               *)
(* Percentages are integers here: pointer positions are whole pixels and   *)
(* the rendered image is RectSizes pixels wide, so that                    *)
(* ((clientX - startX) / rect.width) * 100 is a whole number.              *)
(***************************************************************************)
Min2(a, b) == IF a < b THEN a ELSE b
Max2(a, b) == IF a > b THEN a ELSE b

\* clamp without its upper bound: Math.max(val, min)
clampNoMax(val, min, max) == Max2(val, min)

\* clamp without its lower bound: Math.min(val, max)
clampNoMin(val, min, max) == Min2(val, max)

\* clamp whose upper bound is one too low
clampBelowMax(val, min, max) == Min2(Max2(val, min), max - 1)

\* const clamp = (val, min, max) => Math.min(Math.max(val, min), max)
clamp(val, min, max) == Min2(Max2(val, min), max)

\* const minSize = 10; // Minimum 10% size
minSize == 10

\* mode.includes(ch): the characters of each handle name
Chars(mode) ==
  CASE mode = "move" -> {"m", "o", "v", "e"}
    [] mode = "nw" -> {"n", "w"}
    [] mode = "ne" -> {"n", "e"}
    [] mode = "sw" -> {"s", "w"}
    [] mode = "se" -> {"s", "e"}
\* an includes for which every handle name holds an 'e'
IncludesEast(mode, ch) == ch \in Chars(mode) \cup {"e"}

Includes(mode, ch) == ch \in Chars(mode)

Modes == {"move", "nw", "ne", "sw", "se"}

\* NewCrop whose n and w branches subtract the edge movement from the size
NewCropSignSlip(startCrop, mode, deltaX, deltaY) ==
  IF mode = "move"
    THEN [x |-> clamp(startCrop.x + deltaX, 0, 100 - startCrop.width),
          y |-> clamp(startCrop.y + deltaY, 0, 100 - startCrop.height),
          width |-> startCrop.width,
          height |-> startCrop.height]
    ELSE
      LET yN == IF Includes(mode, "n")
                  THEN clamp(startCrop.y + deltaY, 0, startCrop.y + startCrop.height - minSize)
                  ELSE startCrop.y
          hN == IF Includes(mode, "n")
                  THEN startCrop.height - (startCrop.y - yN)
                  ELSE startCrop.height
          hS == IF Includes(mode, "s")
                  THEN clamp(startCrop.height + deltaY, minSize, 100 - startCrop.y)
                  ELSE hN
          xW == IF Includes(mode, "w")
                  THEN clamp(startCrop.x + deltaX, 0, startCrop.x + startCrop.width - minSize)
                  ELSE startCrop.x
          wW == IF Includes(mode, "w")
                  THEN startCrop.width - (startCrop.x - xW)
                  ELSE startCrop.width
          wE == IF Includes(mode, "e")
                  THEN clamp(startCrop.width + deltaX, minSize, 100 - startCrop.x)
                  ELSE wW
      IN [x |-> xW, y |-> yN, width |-> wE, height |-> hS]

\* handlePointerMove, lines 36-63: the rectangle derived from the snapshot and the deltas
NewCrop(startCrop, mode, deltaX, deltaY) ==
  IF mode = "move"
    THEN [x |-> clamp(startCrop.x + deltaX, 0, 100 - startCrop.width),
          y |-> clamp(startCrop.y + deltaY, 0, 100 - startCrop.height),
          width |-> startCrop.width,
          height |-> startCrop.height]
    ELSE
      LET yN == IF Includes(mode, "n")
                  THEN clamp(startCrop.y + deltaY, 0, startCrop.y + startCrop.height - minSize)
                  ELSE startCrop.y
          hN == IF Includes(mode, "n")
                  THEN startCrop.height + (startCrop.y - yN)
                  ELSE startCrop.height
          hS == IF Includes(mode, "s")
                  THEN clamp(startCrop.height + deltaY, minSize, 100 - startCrop.y)
                  ELSE hN
          xW == IF Includes(mode, "w")
                  THEN clamp(startCrop.x + deltaX, 0, startCrop.x + startCrop.width - minSize)
                  ELSE startCrop.x
          wW == IF Includes(mode, "w")
                  THEN startCrop.width + (startCrop.x - xW)
                  ELSE startCrop.width
          wE == IF Includes(mode, "e")
                  THEN clamp(startCrop.width + deltaX, minSize, 100 - startCrop.x)
                  ELSE wW
      IN [x |-> xW, y |-> yN, width |-> wE, height |-> hS]

\* pointer positions (clientX, clientY), in pixels
PxX == {0, 30, 120}
PxY == {0, 60}
\* getBoundingClientRect() of the image: <<width, height>> in pixels
RectSizes == {<<0, 0>>, <<100, 100>>}

\* createHandler(mode).onPointerDown (lines 69-79)
PointerDown(mode, clientX, clientY) ==
  /\ interactionRef' = <<[startX |-> clientX, startY |-> clientY,
                          startCrop |-> crop, mode |-> mode]>>
  /\ UNCHANGED crop
  /\ last' = Step("pointerDown")

\* handlePointerMove (lines 23-66)
handlePointerMove(clientX, clientY, rect) ==
  /\ IF interactionRef = <<>> \/ rect[1] = 0 \/ rect[2] = 0
       THEN UNCHANGED crop
       ELSE crop' = NewCrop(interactionRef[1].startCrop, interactionRef[1].mode,
                            ((clientX - interactionRef[1].startX) * 100) \div rect[1],
                            ((clientY - interactionRef[1].startY) * 100) \div rect[2])
  /\ UNCHANGED interactionRef
  /\ last' = Step("pointerMove")

\* createHandler(mode).onPointerUp (lines 81-86)
PointerUp ==
  /\ interactionRef' = <<>>
  /\ UNCHANGED crop
  /\ last' = Step("pointerUp")

\* A pointercancel event on a handle: createHandler (lines 68-87) returns onPointerDown,
\* onPointerMove and onPointerUp only, so no handler of the component runs.
PointerCancel ==
  /\ UNCHANGED <<crop, interactionRef>>
  /\ last' = Step("pointerCancel")

captureVars == <<isCapturing, capturedImage, recording, recordedAudio, uploading, showFlash,
                 streamRef, mediaRecorderRef, chunksRef, isMounted, supported, streams,
                 captureBlobs, flashTimers, cropBlobs, urls, uploads, clicks,
                 attachments, call>>

\* The Crop Editor is open: MediaCapture as capturePhoto's callback leaves it.
InitCropping ==
  /\ isCapturing = "null"
  /\ capturedImage = 1
  /\ recording = FALSE
  /\ recordedAudio = <<>>
  /\ uploading = FALSE
  /\ showFlash = FALSE
  /\ streamRef = NoStream
  /\ mediaRecorderRef = NoStream
  /\ chunksRef = <<>>
  /\ isMounted = TRUE
  /\ supported = {}
  /\ streams = [i \in Slots |-> FreeSlot]
  /\ captureBlobs = 0
  /\ flashTimers = 0
  /\ cropBlobs = <<>>
  /\ urls = {1}
  /\ uploads = <<>>
  /\ clicks = 2
  /\ last = Step("captureBlobReady")
  /\ attachments = <<>>
  /\ call = <<>>
  /\ InitCrop
  /\ InitCourse

NextCrop ==
  \/ \E mode \in Modes, clientX \in PxX, clientY \in PxY :
        PointerDown(mode, clientX, clientY) /\ UNCHANGED <<captureVars, courseVars>>
  \/ \E clientX \in PxX, clientY \in PxY, rect \in RectSizes :
        handlePointerMove(clientX, clientY, rect) /\ UNCHANGED <<captureVars, courseVars>>
  \/ PointerUp /\ UNCHANGED <<captureVars, courseVars>>
  \/ PointerCancel /\ UNCHANGED <<captureVars, courseVars>>

SpecCrop == InitCropping /\ [][NextCrop]_vars

(***************************************************************************)
(* The pure functions of the component, each applied to inputs drawn from  *)
(* a bounded set: `call` holds the function and its arguments, and the     *)
(* step that applies the function stores the result.                       *)
(***************************************************************************)
Rect(x, y, width, height) == [x |-> x, y |-> y, width |-> width, height |-> height]

\* arguments of clamp
ClampValues == {0 - 20, 0, 5, 10, 50, 100, 120}
\* crop rectangles a gesture can start from, and deltas in percent
StartCrops == {Rect(0, 0, 100, 100), Rect(10, 10, 20, 20), Rect(50, 40, 50, 60),
               Rect(0, 90, 10, 10)}
Deltas == {0 - 120, 0 - 30, 0, 5, 50, 120}

ClampInputs ==
  {[fn |-> "clamp", args |-> <<val, min, max>>, result |-> <<>>] :
     val \in ClampValues, min \in ClampValues, max \in ClampValues}
NewCropInputs ==
  {[fn |-> "handlePointerMove", args |-> <<startCrop, mode, deltaX, deltaY>>, result |-> <<>>] :
     startCrop \in StartCrops, mode \in Modes, deltaX \in Deltas, deltaY \in Deltas}

nonCallVars == <<isCapturing, capturedImage, recording, recordedAudio, uploading, showFlash,
                 streamRef, mediaRecorderRef, chunksRef, isMounted, supported, streams,
                 captureBlobs, flashTimers, cropBlobs, urls, uploads, clicks, last,
                 attachments, crop, interactionRef, courseVars>>

Returns(fn, value) ==
  /\ call # <<>>
  /\ call[1].fn = fn
  /\ call[1].result = <<>>
  /\ call' = <<[call[1] EXCEPT !.result = <<value>>]>>
  /\ UNCHANGED nonCallVars

ApplyClamp ==
  /\ call # <<>> /\ call[1].fn = "clamp"
  /\ Returns("clamp", clamp(call[1].args[1], call[1].args[2], call[1].args[3]))

ApplyNewCrop ==
  /\ call # <<>> /\ call[1].fn = "handlePointerMove"
  /\ Returns("handlePointerMove",
             NewCrop(call[1].args[1], call[1].args[2], call[1].args[3], call[1].args[4]))

\* ---- CropEditor.handleSave (lines 89-118): the size of the output canvas
\* The pairs <<percentage, natural size>> of the inputs below for which the double
\* percentage * (natural / 100) falls below the exact product, a whole number:
\* 100 * (29 / 100) is 28.999999999999996
RoundsBelow == {<<100, 29>>}

\* canvas.width = pixelW: the assignment converts the double crop.width * scaleX to an
\* unsigned long, which drops the fraction
ToUnsignedLong(pct, natural) ==
  IF <<pct, natural>> \in RoundsBelow
    THEN (pct * natural) \div 100 - 1
    ELSE (pct * natural) \div 100

canvasSize(c, naturalWidth, naturalHeight) ==
  <<ToUnsignedLong(c.width, naturalWidth), ToUnsignedLong(c.height, naturalHeight)>>

\* crop rectangles at save, and natural sizes <<naturalWidth, naturalHeight>> of the image
SaveCrops == {Rect(0, 0, 100, 100), Rect(25, 25, 50, 50), Rect(0, 0, 33, 100),
              Rect(10, 10, 15, 35)}
NaturalSizes == {<<400, 400>>, <<1920, 1080>>, <<29, 29>>}

HandleSaveInputs ==
  {[fn |-> "handleSave", args |-> <<c, size[1], size[2]>>, result |-> <<>>] :
     c \in SaveCrops, size \in NaturalSizes}

ApplyHandleSave ==
  /\ call # <<>> /\ call[1].fn = "handleSave"
  /\ Returns("handleSave", canvasSize(call[1].args[1], call[1].args[2], call[1].args[3]))

\* ---- uploadMedia, naming of a picked file (lines 388-408).
\* A string is the sequence of its characters.
\* the characters the class [a-zA-Z0-9-_] matches
WordChars ==
  {"a", "b", "c", "d", "e", "f", "g", "h", "i", "j", "k", "l", "m", "n", "o", "p", "q", "r", "s", "t", "u", "v", "w", "x", "y", "z"}
  \cup {"A", "B", "C", "D", "E", "F", "G", "H", "I", "J", "K", "L", "M", "N", "O", "P", "Q", "R", "S", "T", "U", "V", "W", "X", "Y", "Z"}
  \cup {"0", "1", "2", "3", "4", "5", "6", "7", "8", "9"}
  \cup {"-", "_"}

\* the 0-based index of the first ch from position k on, -1 if there is none
RECURSIVE indexOfFrom(_, _, _)
indexOfFrom(str, ch, k) ==
  IF k > Len(str) THEN 0 - 1
  ELSE IF str[k] = ch THEN k - 1
  ELSE indexOfFrom(str, ch, k + 1)

\* the split at the first '.' instead of the last
firstIndexOf(str, ch) == indexOfFrom(str, ch, 1)

\* String.prototype.lastIndexOf(ch): the 0-based index of the last ch, -1 if there is none
RECURSIVE lastIndexOfFrom(_, _, _)
lastIndexOfFrom(str, ch, k) ==
  IF k = 0 THEN 0 - 1
  ELSE IF str[k] = ch THEN k - 1
  ELSE lastIndexOfFrom(str, ch, k - 1)
lastIndexOf(str, ch) == lastIndexOfFrom(str, ch, Len(str))

\* String.prototype.substring(start, end), 0-based, end exclusive
substring(str, start, end) == SubSeq(str, start + 1, end)

\* baseName.replace(/[^a-zA-Z0-9-_]/g, '_')
sanitizedBaseName(baseName) ==
  [k \in 1..Len(baseName) |-> IF baseName[k] \in WordChars THEN baseName[k] ELSE "_"]

\* lines 388-399 and 408, for blob instanceof File
FileNaming(uniqueId, userId, name) ==
  LET lastDotIndex == lastIndexOf(name, ".")
      baseName == IF lastDotIndex # 0 - 1 THEN substring(name, 0, lastDotIndex) ELSE name
      ext == IF lastDotIndex # 0 - 1 THEN substring(name, lastDotIndex + 1, Len(name)) ELSE <<>>
      storageFileName == uniqueId \o <<"_">> \o sanitizedBaseName(baseName) \o <<".">> \o ext
  IN [storageFileName |-> storageFileName,
      dbFileName |-> name,
      filePath |-> userId \o <<"/">> \o storageFileName]

\* file names: every string of at most MaxNameLen characters of NameChars, and "My Notes.pdf"
MaxNameLen == 3
NameChars == {"a", "Z", "7", "-", "_", " ", ".", "#"}
MyNotes == <<"M", "y", " ", "N", "o", "t", "e", "s", ".", "p", "d", "f">>
FileNames == UNION {[1..n -> NameChars] : n \in 0..MaxNameLen} \cup {MyNotes}
\* a uniqueId (Math.random().toString(36).substring(2, 10)) and a user.id
SampleId == <<"k", "3", "x", "9", "q", "0", "a", "b">>
SampleUser == <<"u", "1">>

FileNamingInputs ==
  {[fn |-> "uploadMedia", args |-> <<SampleId, SampleUser, name>>, result |-> <<>>] :
     name \in FileNames}

ApplyFileNaming ==
  /\ call # <<>> /\ call[1].fn = "uploadMedia"
  /\ Returns("uploadMedia", FileNaming(call[1].args[1], call[1].args[2], call[1].args[3]))

\* ---- the specification of the pure functions
InitPure ==
  /\ InitCapture
  /\ supported = {}
  /\ InitCrop
  /\ InitCourse
  /\ call \in {<<c>> : c \in ClampInputs \cup NewCropInputs \cup HandleSaveInputs
                                 \cup FileNamingInputs}

NextPure ==
  \/ ApplyClamp
  \/ ApplyNewCrop
  \/ ApplyHandleSave
  \/ ApplyFileNaming

SpecPure == InitPure /\ [][NextPure]_vars

(***************************************************************************)
(* CourseDetail on its own: the component as constructed, no capture       *)
(* component in use.                                                       *)
(***************************************************************************)
nonCourseVars == <<isCapturing, capturedImage, recording, recordedAudio, uploading, showFlash,
                   streamRef, mediaRecorderRef, chunksRef, isMounted, supported, streams,
                   captureBlobs, flashTimers, cropBlobs, urls, uploads, clicks,
                   attachments, crop, interactionRef, call>>

InitCourseDetail ==
  /\ InitCapture
  /\ supported = {}
  /\ InitCrop
  /\ call = <<>>
  /\ InitCourse

NextCourse ==
  \/ \E n \in 0..1, calculatedDay \in Days :
        FetchSubjectsDone(n, calculatedDay) /\ UNCHANGED nonCourseVars
  \/ \E d \in Days : DayClick(d) /\ UNCHANGED nonCourseVars
  \/ \E d \in Days : RefreshLogs(d) /\ UNCHANGED nonCourseVars
  \/ \E d \in Days, hasData \in BOOLEAN : LogsResponse(d, hasData) /\ UNCHANGED nonCourseVars

SpecCourse == InitCourseDetail /\ [][NextCourse]_vars

(***************************************************************************)
(* Properties.                                                             *)
(***************************************************************************)
\* the finished upload of the last step, if it finished one, and the uploads in flight
Finished == {last.done[k] : k \in 1..Len(last.done)}
InFlight == {uploads[k] : k \in 1..Len(uploads)}
IsPrefix(a, b) == Len(a) <= Len(b) /\ a = SubSeq(b, 1, Len(a))
Notified(msg) == \E k \in 1..Len(last.notes) : last.notes[k] = msg

\* C1 (SpecCrop): after any sequence of pointer-down / pointer-move / pointer-up events on
\* the five handles, starting from {0,0,100,100}, the crop rectangle satisfies
\* 0 <= x, 0 <= y, x + width <= 100 and y + height <= 100.
C1_CropWithinImage ==
  /\ 0 <= crop.x
  /\ 0 <= crop.y
  /\ crop.x + crop.width <= 100
  /\ crop.y + crop.height <= 100

\* C1 witness: a move gesture on a rectangle that was resized before has pushed the
\* rectangle against the right edge of the image.
C1_Witness ==
  /\ interactionRef # <<>>
  /\ interactionRef[1].mode = "move"
  /\ crop # interactionRef[1].startCrop
  /\ crop.x > 0
  /\ crop.x + crop.width = 100

\* C2 (SpecCrop): width and height never fall below minSize = 10.
C2_MinimumSize == crop.width >= 10 /\ crop.height >= 10

\* C2 witness: resize gestures have shrunk the rectangle to the minimum in both directions.
C2_Witness ==
  /\ interactionRef # <<>>
  /\ interactionRef[1].mode # "move"
  /\ crop.width = 10
  /\ crop.height = 10

\* C3: at most one acquired media stream has live tracks (as the claim states it).
C3_SingleStream == Cardinality(LiveStreams) <= 1

\* C4 as the claim states it: a finished uploadMedia invocation has invoked onUpload
\* exactly once if the storage write and the metadata insert succeeded, and never otherwise.
C4_OnUploadIffSuccess ==
  \A d \in Finished :
     d.onUpload = IF d.stored = "yes" /\ d.inserted = "yes" THEN 1 ELSE 0

\* C4 amended: a finished uploadMedia invocation has invoked onUpload exactly once if the
\* upload succeeded and the component was still mounted when the insert completed; it has
\* not invoked it if the upload succeeded after teardown or if any step failed; an
\* invocation in flight has not invoked it.
C4_OnUploadIffSuccessWhileMounted ==
  /\ \A d \in Finished :
        d.onUpload = IF d.stored = "yes" /\ d.inserted = "yes" /\ isMounted THEN 1 ELSE 0
  /\ \A u \in InFlight : u.onUpload = 0

\* C4 witness: an upload has just succeeded and onUpload was invoked once.
C4_Witness ==
  \E d \in Finished : d.stored = "yes" /\ d.inserted = "yes" /\ d.onUpload = 1

\* C5: a blob larger than 50*1024*1024 bytes is rejected with the size-limit notification
\* before any call to the authentication, storage or metadata service; a blob of
\* 50*1024*1024 bytes or less passes the size check (its first call, getUser, is made).
C5_SizeLimit ==
  /\ \A d \in Finished :
        d.size > 50 * 1024 * 1024 =>
          /\ d.calls = <<>>
          /\ d.user = "?" /\ d.stored = "?" /\ d.inserted = "?"
          /\ d.onUpload = 0
          /\ Notified("File too large. Maximum size limit is 50MB.")
  /\ \A u \in InFlight : u.size <= 50 * 1024 * 1024
  /\ \A r \in Finished \cup InFlight :
        r.size <= 50 * 1024 * 1024 => (r.calls # <<>> /\ r.calls[1] = "getUser")

\* C5 witness: uploadMedia has just rejected a blob of 50*1024*1024 + 1 bytes.
C5_Witness ==
  \E d \in Finished : d.size = 50 * 1024 * 1024 + 1 /\ d.calls = <<>>

\* C6: when getUser returns no user, uploadMedia reports the authentication error and
\* stops: no storage upload, no public-URL resolution, no metadata insert, no onUpload.
C6_AuthRequired ==
  /\ \A d \in Finished :
        d.user = "none" =>
          /\ d.calls = <<"getUser">>
          /\ d.stored = "?" /\ d.inserted = "?"
          /\ d.onUpload = 0
          /\ Notified("Authentication required to upload.")
  /\ \A u \in InFlight : u.user # "none"

\* C6 witness: an upload has just been aborted because no user was returned.
C6_Witness == \E d \in Finished : d.user = "none"

\* C7: the services are called in the order getUser, storage upload, public-URL
\* resolution, metadata insert, each at most once (no retry); when the storage upload
\* fails the invocation ends there, with a notification and without URL resolution or
\* metadata insert.
C7_StepOrderAndAbort ==
  /\ \A r \in Finished \cup InFlight :
        IsPrefix(r.calls, <<"getUser", "upload", "getPublicUrl", "insert">>)
  /\ \A u \in InFlight : u.stored # "no"
  /\ \A d \in Finished :
        d.stored = "no" =>
          /\ d.calls = <<"getUser", "upload">>
          /\ d.inserted = "?"
          /\ Notified("Storage error")

\* C7 witness: an upload has just ended on a failed storage write.
C7_Witness == \E d \in Finished : d.stored = "no" /\ d.calls = <<"getUser", "upload">>

\* C8: while the capture view is shown, in audio mode with a recording in progress or a
\* recorded blob awaiting review the dismiss action is disabled; in every other state in
\* which the capture view is shown it is enabled (the gesture budget permitting).
C8_DismissGuard ==
  /\ (isCapturing = "audio" /\ (recording \/ recordedAudio # <<>>)) => ~ENABLED Dismiss
  /\ (/\ ModalShown
      /\ ~(isCapturing = "audio" /\ (recording \/ recordedAudio # <<>>))
      /\ clicks < MaxClicks) => ENABLED Dismiss

\* C8 witness: the audio view is shown with a recorded blob awaiting review.
C8_Witness == AudioViewShown /\ ~recording /\ recordedAudio # <<>>

\* C9: Discard in the Reviewing state stops the tracks of the held stream, clears the
\* stream handle and returns to Idle (mode null, recording false, recordedAudio null)
\* without starting an upload or making a storage or metadata call or invoking onUpload.
C9_DiscardReleases ==
  [][handleDiscardAudio =>
       /\ streamRef' = NoStream
       /\ streamRef # NoStream => streams'[streamRef].st # "live"
       /\ isCapturing' = "null"
       /\ recording' = FALSE
       /\ recordedAudio' = <<>>
       /\ uploads' = uploads
       /\ last'.done = <<>>]_vars

\* C9 witness: Discard has just run while the component holds no live stream any more.
C9_Witness == last.op = "handleDiscardAudio" /\ LiveStreams = {}

\* C10: no state setter is invoked after the component was unmounted (as the claim
\* states it).
C10_NoSetterAfterTeardown == last.late = {}

\* the stream acquisitions that getUserMedia has not answered yet
Pending == {i \in Slots : streams[i].st = "pending"}

\* C11: after the component was unmounted and every acquisition outstanding at teardown
\* has completed, no acquired stream has a live track (as the claim states it).
C11_ReleasedAfterTeardown == (~isMounted /\ Pending = {}) => LiveStreams = {}

\* C12: when getUserMedia has just rejected, the error notification was emitted, the
\* capture mode of the mounted component is null and no stream handle is stored (as the
\* claim states it).
C12_RejectReturnsToIdle ==
  last.op = "getUserMediaReject" =>
    /\ Notified("Media access denied. Please check your browser permissions.")
    /\ isMounted => isCapturing = "null"
    /\ streamRef = NoStream

\* the call that has returned: its arguments and its result
Returned(fn) == call # <<>> /\ call[1].fn = fn /\ call[1].result # <<>>

\* C13 (SpecPure): clamp(v, lo, hi) with lo <= hi is lo when v < lo, hi when v > hi and v
\* otherwise; the result lies in [lo, hi].
C13_Clamp ==
  Returned("clamp") =>
    LET v == call[1].args[1]
        lo == call[1].args[2]
        hi == call[1].args[3]
        r == call[1].result[1]
    IN lo <= hi =>
         /\ v < lo => r = lo
         /\ v > hi => r = hi
         /\ (lo <= v /\ v <= hi) => r = v
         /\ lo <= r /\ r <= hi

\* C13 witness: clamp has returned hi for a value above hi, with lo < hi.
C13_Witness ==
  /\ Returned("clamp")
  /\ call[1].args[2] < call[1].args[3]
  /\ call[1].args[1] > call[1].args[3]
  /\ call[1].result[1] = call[1].args[3]

\* the value v held between lo and hi, written out
Between(v, lo, hi) == IF v < lo THEN lo ELSE IF v > hi THEN hi ELSE v

\* C14 (SpecPure): a gesture on an n-bearing handle with start crop s and vertical delta dy
\* gives y = s.y + dy held between 0 and s.y + s.height - 10 and height = s.height +
\* (s.y - y); a w-bearing handle does the same on x and width with the horizontal delta;
\* the nw handle on {10,10,20,20} with delta (+50,+50) gives {20,20,10,10}; the height and
\* width so obtained are never below 10.
C14_TopLeftResize ==
  Returned("handlePointerMove") =>
    LET st == call[1].args[1]
        mode == call[1].args[2]
        dx == call[1].args[3]
        dy == call[1].args[4]
        r == call[1].result[1]
    IN /\ mode \in {"nw", "ne"} =>
            /\ r.y = Between(st.y + dy, 0, st.y + st.height - 10)
            /\ r.height = st.height + (st.y - r.y)
            /\ r.height >= 10
       /\ mode \in {"nw", "sw"} =>
            /\ r.x = Between(st.x + dx, 0, st.x + st.width - 10)
            /\ r.width = st.width + (st.x - r.x)
            /\ r.width >= 10
       /\ (mode = "nw" /\ st = Rect(10, 10, 20, 20) /\ dx = 50 /\ dy = 50) =>
            r = Rect(20, 20, 10, 10)

\* C14 witness: the nw handle on {10,10,20,20} dragged by (+50,+50) has given {20,20,10,10}.
C14_Witness ==
  /\ Returned("handlePointerMove")
  /\ call[1].args = <<Rect(10, 10, 20, 20), "nw", 50, 50>>
  /\ call[1].result[1] = Rect(20, 20, 10, 10)

\* C15 (SpecPure): on save the output raster is round(crop.width * W / 100) pixels wide and
\* round(crop.height * H / 100) pixels high (as the claim states it).
C15_OutputSizeRounded ==
  Returned("handleSave") =>
    LET c == call[1].args[1]
        W == call[1].args[2]
        H == call[1].args[3]
    IN call[1].result[1] = <<(2 * c.width * W + 100) \div 200,
                             (2 * c.height * H + 100) \div 200>>

\* C16 (SpecPure): for a picked file whose name N has a '.', with B the text before the
\* last '.' and ext the text after it, the stored object name is the id, '_', B with every
\* character outside [a-zA-Z0-9-_] replaced by '_', '.', ext; the storage path is the user
\* id, '/', the stored object name; the display name is N.
C16_PickedFileNaming ==
  Returned("uploadMedia") =>
    LET id == call[1].args[1]
        user == call[1].args[2]
        N == call[1].args[3]
        r == call[1].result[1]
    IN /\ r.dbFileName = N
       /\ r.filePath = user \o <<"/">> \o r.storageFileName
       /\ \A p \in 1..Len(N) :
            (N[p] = "." /\ \A k \in (p + 1)..Len(N) : N[k] # ".") =>
              r.storageFileName =
                id \o <<"_">>
                   \o [k \in 1..(p - 1) |-> IF N[k] \in WordChars THEN N[k] ELSE "_"]
                   \o <<".">>
                   \o [k \in 1..(Len(N) - p) |-> N[p + k]]

\* C16 witness: "My Notes.pdf" has been named {id}_My_Notes.pdf, shown as "My Notes.pdf".
C16_Witness ==
  /\ Returned("uploadMedia")
  /\ call[1].args[3] = MyNotes
  /\ call[1].result[1].storageFileName =
       SampleId \o <<"_", "M", "y", "_", "N", "o", "t", "e", "s", ".", "p", "d", "f">>
  /\ call[1].result[1].dbFileName = MyNotes

\* C17: a file pick hands the file to uploadMedia with the type image, video or audio when
\* its declared media type starts with "image/", "video/" or "audio/", and document for
\* every other declared type; the result is one of the four types, and the pick acquires
\* no stream and leaves the held one alone.
C17_TypeInference ==
  [][\A size \in BlobSizes, fileType \in FileTypes :
       (last'.op = "handleFileUpload" /\ handleFileUpload(size, fileType)) =>
         LET r == IF last'.done # <<>> THEN last'.done[1] ELSE uploads'[Len(uploads')]
             head == [k \in 1..(IF Len(fileType) < 6 THEN Len(fileType) ELSE 6) |-> fileType[k]]
             want == CASE head = <<"i", "m", "a", "g", "e", "/">> -> "image"
                       [] head = <<"v", "i", "d", "e", "o", "/">> -> "video"
                       [] head = <<"a", "u", "d", "i", "o", "/">> -> "audio"
                       [] OTHER -> "document"
         IN /\ r.file
            /\ r.type = want
            /\ r.type \in {"image", "video", "audio", "document"}
            /\ streams' = streams
            /\ streamRef' = streamRef]_vars

\* C17 witness: a picked file of a video type is in the upload pipeline as a video.
C17_Witness ==
  /\ last.op = "handleFileUpload"
  /\ \E r \in InFlight : r.file /\ r.type = "video"

\* C18 as the claim states it: the row of the upload that has just succeeded is the last
\* row of the visible attachment list.
C18_AppendedInCompletionOrder ==
  \A d \in Finished :
     d.onUpload = 1 => (attachments # <<>> /\ attachments[Len(attachments)] = d.uniqueId)

\* C18 amended: a step that completes a successful upload while the component is mounted
\* puts the returned row, which is not in the list yet, in front of the visible attachment
\* list, and no other step changes the list: the list holds each such row once, latest
\* completion first, whatever the order in which the uploads were started.
C18_PrependedInCompletionOrder ==
  [][IF last'.done # <<>> /\ last'.done[1].inserted = "yes" /\ isMounted
       THEN /\ attachments' = <<last'.done[1].uniqueId>> \o attachments
            /\ \A k \in 1..Len(attachments) : attachments[k] # last'.done[1].uniqueId
       ELSE attachments' = attachments]_vars

\* C18 witness: of two uploads in flight together the one named second has completed
\* first, and the one named first has just completed.
C18_Witness ==
  /\ attachments = <<1, 2>>
  /\ \E d \in Finished : d.onUpload = 1 /\ d.uniqueId = 1

\* C19: while the Crop Editor is open the controller holds no media stream and no
\* acquired stream has a live track (as the claim states it).
C19_CroppingHoldsNoStream ==
  CropEditorShown => (streamRef = NoStream /\ LiveStreams = {})

\* C20: while the controller is Idle (capture mode null, no Crop Editor open, no stream
\* acquisition pending) no media stream is held and no acquired track is live (as the
\* claim states it).
C20_IdleHoldsNoStream ==
  (isMounted /\ isCapturing = "null" /\ capturedImage = NoImage /\ Pending = {}) =>
     (streamRef = NoStream /\ LiveStreams = {})

\* C21: pressing stop in a mounted audio session leaves a recorder stop event outstanding,
\* the event whose handler finalizes the buffered chunks and opens the review (as the
\* claim states it: the stop action leads to Reviewing however the session was set up).
C21_StopLeadsToReview ==
  (last.op = "stopClick" /\ isMounted) => \E i \in Slots : streams[i].rec = "data"

\* C22: Retake in the Crop Editor revokes the temporary URL of the captured still, closes
\* the Crop Editor, starts no upload and requests a new photo stream; and when that
\* request is granted to the mounted component, the controller is in StreamingPhoto (photo
\* mode, camera view shown) holding the granted stream (as the claim states it).
C22_CancelReturnsToCamera ==
  [][/\ last'.op = "handleCropCancel" =>
          /\ capturedImage \notin urls'
          /\ ~CropEditorShown'
          /\ uploads' = uploads
          /\ \E i \in Slots : /\ streams[i].st # "pending"
                               /\ streams'[i] = [type |-> "photo", st |-> "pending",
                                                  rec |-> "none", by |-> "retake"]
     /\ \A i \in Slots :
          (streams[i].by = "retake" /\ streams[i].st = "pending" /\ streams'[i].st = "live")
             => (PhotoViewShown' /\ streamRef' = i)]_vars

\* C23 as the claim states it: the chunk buffer is empty after a recorder stop has been
\* handled.
C23_BufferEmptyAfterStop == last.op = "recorderStop" => chunksRef = <<>>

\* C23 amended: when the stop of a recording is handled while the component is mounted,
\* the blob produced holds exactly the non-empty data the recorder emitted for that
\* recording, nothing of an earlier recording, and the chunk buffer is empty afterwards;
\* and no step taken while a recording goes on removes a chunk from the buffer.
C23_ChunkBufferingWhileMounted ==
  [][/\ (last'.op = "recorderStop" /\ isMounted) =>
          /\ recordedAudio' # <<>>
          /\ recordedAudio'[1].chunks = (IF last'.data > 0 THEN <<last'.data>> ELSE <<>>)
          /\ chunksRef' = <<>>
     /\ (recording /\ recording') => IsPrefix(chunksRef, chunksRef')]_vars

\* C23 witness: a recording that emitted data has been stopped and its blob is in review.
C23_Witness ==
  /\ last.op = "recorderStop"
  /\ isMounted
  /\ last.data > 0
  /\ recordedAudio # <<>>
  /\ recordedAudio[1].chunks = <<last.data>>
  /\ chunksRef = <<>>

\* t is the first entry of the preference list that sup supports, '' when there is none
IsFirstSupported(t, list, sup) ==
  IF \A k \in 1..Len(list) : list[k] \notin sup
    THEN t = ""
    ELSE \E k \in 1..Len(list) : /\ t = list[k]
                                  /\ list[k] \in sup
                                  /\ \A j \in 1..(k - 1) : list[j] \notin sup

\* every encoding either preference list names
AllTypes == {videoTypes[k] : k \in 1..Len(videoTypes)} \cup {audioTypes[k] : k \in 1..Len(audioTypes)}

\* C24: the encoding selected for a category is the first supported entry of its preference
\* list (whatever the browser supports), the blob of a recording is tagged with it, and
\* when an audio stream is granted, setupRecorder reports an error and leaves the recorder
\* handle without a recorder if no entry is supported, and installs a recorder on the
\* stream otherwise.
C24_EncodingNegotiation ==
  /\ last.op = "init" =>
        /\ \A sup \in SUBSET AllTypes :
              /\ IsFirstSupported(FindSupported(audioTypes, sup), audioTypes, sup)
              /\ IsFirstSupported(FindSupported(videoTypes, sup), videoTypes, sup)
        /\ IsFirstSupported(getSupportedMimeType("audio"), audioTypes, supported)
        /\ IsFirstSupported(getSupportedMimeType("video"), videoTypes, supported)
  /\ (last.op = "getUserMediaResolve" /\ isMounted /\ isCapturing = "audio"
                                      /\ streamRef # NoStream) =>
        IF \A k \in 1..Len(audioTypes) : audioTypes[k] \notin supported
          THEN /\ Notified("Your browser does not support recording media.")
               /\ mediaRecorderRef = NoStream
               /\ streams[streamRef].rec = "none"
          ELSE /\ ~Notified("Your browser does not support recording media.")
               /\ mediaRecorderRef = streamRef
               /\ streams[streamRef].rec = "inactive"
  /\ recordedAudio # <<>> => IsFirstSupported(recordedAudio[1].type, audioTypes, supported)

\* C24 witness: audio/webm is not supported, and the recording in review is tagged with
\* audio/mp4, the next entry of the list.
C24_Witness ==
  /\ "audio/webm" \notin supported
  /\ recordedAudio # <<>>
  /\ recordedAudio[1].type = "audio/mp4"

\* C25: after a pointer-up or a pointer-cancel the interaction snapshot is null (as the
\* claim states it).
C25_SnapshotNullAfterGesture ==
  last.op \in {"pointerUp", "pointerCancel"} => interactionRef = <<>>

\* C26: throughout a gesture with start crop s, a move gesture leaves width and height
\* equal to s.width and s.height; an n-bearing handle keeps y + height = s.y + s.height; a
\* w-bearing handle keeps x + width = s.x + s.width; an s-bearing handle leaves y = s.y; an
\* e-bearing handle leaves x = s.x.
C26_AnchoredEdges ==
  interactionRef # <<>> =>
    LET st == interactionRef[1].startCrop
        mode == interactionRef[1].mode
    IN /\ mode = "move" => (crop.width = st.width /\ crop.height = st.height)
       /\ mode \in {"nw", "ne"} => crop.y + crop.height = st.y + st.height
       /\ mode \in {"nw", "sw"} => crop.x + crop.width = st.x + st.width
       /\ mode \in {"sw", "se"} => crop.y = st.y
       /\ mode \in {"ne", "se"} => crop.x = st.x

\* C26 witness: a pointer-move of an nw gesture has moved the top and the left edge, of an
\* se gesture the bottom and the right edge.
C26_Witness ==
  /\ last.op = "pointerMove"
  /\ interactionRef # <<>>
  /\ \/ /\ interactionRef[1].mode = "nw"
        /\ crop.x # interactionRef[1].startCrop.x
        /\ crop.y # interactionRef[1].startCrop.y
     \/ /\ interactionRef[1].mode = "se"
        /\ crop.width # interactionRef[1].startCrop.width
        /\ crop.height # interactionRef[1].startCrop.height

\* C27: once the component is torn down, or no captured still and no recorded audio is
\* held any more (crop saved or cancelled, audio saved or discarded), every temporary
\* object URL the component created has been revoked (as the claim states it).
C27_UrlsReleased ==
  (~isMounted \/ (capturedImage = NoImage /\ recordedAudio = <<>>)) => urls = {}

\* C28: when the query for day d completes, dayLogs and fetchingLogs change only if d is
\* the active requested day; a response for a day that is not the selected one never
\* replaces logs of the selected day; and the log a StudyDay is given is none or a log of
\* the selected day.
C28_StaleResponsesIgnored ==
  [][/\ last'.op = "logsResponse" =>
          /\ activeRequestRef # last'.day =>
                (dayLogs' = dayLogs /\ fetchingLogs' = fetchingLogs)
          /\ (last'.day # currentDay /\ dayLogs = {currentDay}) => dayLogs' = dayLogs
     /\ initialLog' \in {NoLog, currentDay'}]_vars

\* C28 witness: the logs of day 1 are held, day 2 is selected and its query is in flight,
\* and a response for day 1 has just arrived and was ignored.
C28_Witness ==
  /\ last.op = "logsResponse"
  /\ last.day = 1
  /\ currentDay = 2
  /\ activeRequestRef = 2
  /\ logRequests[2] > 0
  /\ dayLogs = {1}
  /\ fetchingLogs
  /\ initialLog = NoLog

\* C29: no two invocations of uploadMedia are for the same captured still: not two in
\* flight together, and not one that has just returned and one in flight (as the claim
\* states it).
C29_OneUploadPerStill ==
  /\ \A j, k \in 1..Len(uploads) :
        (uploads[j].still # NoImage /\ uploads[j].still = uploads[k].still) => j = k
  /\ \A d \in Finished, k \in 1..Len(uploads) :
        d.still # NoImage => uploads[k].still # d.still

\* C30: the Crop Editor opens only in a step taken from StreamingPhoto (the camera view
\* shown in photo mode with a stream held), never from Idle or from an audio session: a
\* photo session that was dismissed stays closed (as the claim states it).
C30_CropOpensFromStreamingPhoto ==
  [][(~CropEditorShown /\ CropEditorShown') =>
        (PhotoViewShown /\ isCapturing = "photo" /\ streamRef # NoStream)]_vars

====
